---- MODULE Spec2Model ----
(***************************************************************************)
(* Model of the swapper crate (src/src/lib.rs): a pair of Swapper          *)
(* endpoints sharing one AtomicPtr slot (`contents`) and two cross-wired   *)
(* mpsc channels.  Each endpoint is used by one thread; swap() is split    *)
(* into its atomic steps: take-and-clear, in-place exchange, send,         *)
(* compare-and-swap publish, recv.  Dropping an endpoint drops its fields  *)
(* in declaration order (contents, wait, notify).                          *)
(***************************************************************************)
EXTENDS Integers, Sequences, FiniteSets, TLC

\* ---- bounds of the model ----
MaxCalls == 2      \* swap calls per endpoint
NumVals  == 2      \* distinct values a caller may pass
NumLocs  == 2      \* distinct memory locations a caller may pass as our_ref

Endpoints == {"a", "b"}
Values    == 1..NumVals

\* ptr::null_mut()
NULL == 0

\* A caller's locations: endpoint "a" owns 1..NumLocs, "b" the next NumLocs.
LocsOf(e) == IF e = "a" THEN 1..NumLocs ELSE (NumLocs + 1)..(2 * NumLocs)

Other(e) == IF e = "a" THEN "b" ELSE "a"

\* Mutant: each endpoint keeps the Sender of its own channel.
NotifyTargetSelf(e) == e

\* swapper(): swapper_a.notify = notify_b feeds wait_b = swapper_b.wait, and
\* swapper_b.notify = notify_a feeds wait_a = swapper_a.wait.
NotifyTarget(e) == Other(e)

VARIABLES
    pc,         \* per endpoint: position of its thread
    contents,   \* the shared AtomicPtr: NULL or a location
    our_ref,    \* per endpoint: the location passed to the current/last call
    their_ptr,  \* per endpoint: the local their_ptr of the current call
    val,        \* per endpoint: the contents of *our_ref
    chan,       \* per endpoint: undelivered () messages queued for its `wait`
    supplied,   \* history: per endpoint, the values passed to its calls
    results,    \* history: per endpoint, the outcome of each returned call
    pubTakes,   \* history: take-and-clears that returned e's latest publication
    pubExch,    \* history: exchanges performed on e's latest publication
    callExch    \* history: exchanges performed by e's current/last call

vars == <<pc, contents, our_ref, their_ptr, val, chan, supplied, results,
          pubTakes, pubExch, callExch>>

\* The Receiver `wait` of e is dropped first, the Sender `notify` second.
WaitAlive(e)   == pc[e] \notin {"dropping", "dropped"}
NotifyAlive(e) == pc[e] # "dropped"

\* The endpoint whose caller owns location p.
OwnerOf(p) == IF p \in LocsOf("a") THEN "a" ELSE "b"

\* p refers to the value of an endpoint that has published and is blocked.
Borrowed(p) == \E o \in Endpoints : pc[o] = "recv" /\ our_ref[o] = p

\* e's publication is in the slot or in the peer's hands, not yet exchanged.
Unconsumed(e) ==
    /\ pc[e] = "recv"
    /\ pubExch[e] = 0

Outcome(e, isOk, at) == [ok |-> isOk, out |-> val[e], site |-> at]

Init ==
    /\ pc = [e \in Endpoints |-> "idle"]
    /\ contents = NULL
    /\ our_ref = [e \in Endpoints |-> NULL]
    /\ their_ptr = [e \in Endpoints |-> NULL]
    /\ val = [e \in Endpoints |-> 1]
    /\ chan = [e \in Endpoints |-> 0]
    /\ supplied = [e \in Endpoints |-> <<>>]
    /\ results = [e \in Endpoints |-> <<>>]
    /\ pubTakes = [e \in Endpoints |-> 0]
    /\ pubExch = [e \in Endpoints |-> 0]
    /\ callExch = [e \in Endpoints |-> 0]

\* The caller enters swap(&self, our_ref) with *our_ref = v.
StartSwap(e, loc, v) ==
    /\ pc[e] = "idle"
    /\ Len(supplied[e]) < MaxCalls
    /\ pc' = [pc EXCEPT ![e] = "take"]
    /\ our_ref' = [our_ref EXCEPT ![e] = loc]
    /\ val' = [val EXCEPT ![e] = v]
    /\ their_ptr' = [their_ptr EXCEPT ![e] = NULL]
    /\ supplied' = [supplied EXCEPT ![e] = Append(@, v)]
    /\ callExch' = [callExch EXCEPT ![e] = 0]
    /\ UNCHANGED <<contents, chan, results, pubTakes, pubExch>>

\* Mutant: a load that leaves the publication in the slot.
TakeLoad(e) ==
    /\ pc[e] = "take"
    /\ their_ptr' = [their_ptr EXCEPT ![e] = contents]
    /\ pc' = [pc EXCEPT ![e] = IF contents # NULL THEN "exchange" ELSE "cas"]
    /\ pubTakes' = IF contents # NULL
                   THEN [pubTakes EXCEPT ![OwnerOf(contents)] = @ + 1]
                   ELSE pubTakes
    /\ UNCHANGED <<contents, our_ref, val, chan, supplied, results, pubExch, callExch>>

\* let their_ptr = self.contents.swap(ptr::null_mut(), AcqRel); if let Some(..)
Take(e) ==
    /\ pc[e] = "take"
    /\ their_ptr' = [their_ptr EXCEPT ![e] = contents]
    /\ contents' = NULL
    /\ pc' = [pc EXCEPT ![e] = IF contents # NULL THEN "exchange" ELSE "cas"]
    /\ pubTakes' = IF contents # NULL
                   THEN [pubTakes EXCEPT ![OwnerOf(contents)] = @ + 1]
                   ELSE pubTakes
    /\ UNCHANGED <<our_ref, val, chan, supplied, results, pubExch, callExch>>

\* Mutant: copies the peer's value instead of exchanging.
ExchangeCopy(e) ==
    /\ pc[e] = "exchange"
    /\ LET o == OwnerOf(their_ptr[e]) IN
         /\ val' = [val EXCEPT ![e] = val[o]]
         /\ pubExch' = [pubExch EXCEPT ![o] = @ + 1]
    /\ callExch' = [callExch EXCEPT ![e] = @ + 1]
    /\ pc' = [pc EXCEPT ![e] = "send"]
    /\ UNCHANGED <<contents, our_ref, their_ptr, chan, supplied, results, pubTakes>>

\* mem::swap(our_ref, their_ref).  When their_ref refers to the value of a
\* blocked publisher the two values are exchanged.  Otherwise their_ref is a
\* reference that no call lends out any more (it aliases the caller's own
\* storage or dangles): the behaviour is undefined and the caller's value
\* afterwards is arbitrary.
Exchange(e) ==
    /\ pc[e] = "exchange"
    /\ LET o == OwnerOf(their_ptr[e]) IN
         /\ IF Borrowed(their_ptr[e])
            THEN val' = [val EXCEPT ![e] = val[o], ![o] = val[e]]
            ELSE \E w \in Values : val' = [val EXCEPT ![e] = w]
         /\ pubExch' = [pubExch EXCEPT ![o] = @ + 1]
    /\ callExch' = [callExch EXCEPT ![e] = @ + 1]
    /\ pc' = [pc EXCEPT ![e] = "send"]
    /\ UNCHANGED <<contents, our_ref, their_ptr, chan, supplied, results, pubTakes>>

\* Mutant: the result of send is ignored (no try!).
SendIgnore(e) ==
    /\ pc[e] = "send"
    /\ chan' = IF WaitAlive(NotifyTarget(e))
               THEN [chan EXCEPT ![NotifyTarget(e)] = @ + 1]
               ELSE chan
    /\ results' = [results EXCEPT ![e] = Append(@, Outcome(e, TRUE, "send"))]
    /\ pc' = [pc EXCEPT ![e] = "idle"]
    /\ UNCHANGED <<contents, our_ref, their_ptr, val, supplied,
                   pubTakes, pubExch, callExch>>

\* try!(self.notify.send(())); return Ok(());
\* Sender::send fails exactly when the Receiver has been dropped.
Send(e) ==
    /\ pc[e] = "send"
    /\ IF WaitAlive(NotifyTarget(e))
       THEN /\ chan' = [chan EXCEPT ![NotifyTarget(e)] = @ + 1]
            /\ results' = [results EXCEPT ![e] = Append(@, Outcome(e, TRUE, "send"))]
       ELSE /\ chan' = chan
            /\ results' = [results EXCEPT ![e] = Append(@, Outcome(e, FALSE, "send"))]
    /\ pc' = [pc EXCEPT ![e] = "idle"]
    /\ UNCHANGED <<contents, our_ref, their_ptr, val, supplied,
                   pubTakes, pubExch, callExch>>

\* Mutant: an unconditional store instead of the compare-and-swap.
CasStore(e) ==
    /\ pc[e] = "cas"
    /\ contents' = our_ref[e]
    /\ pc' = [pc EXCEPT ![e] = "recv"]
    /\ pubTakes' = [pubTakes EXCEPT ![e] = 0]
    /\ pubExch' = [pubExch EXCEPT ![e] = 0]
    /\ UNCHANGED <<our_ref, their_ptr, val, chan, supplied, results, callExch>>

\* let their_ptr = self.contents.compare_and_swap(null, our_ref, AcqRel);
\* if their_ptr.is_null() { .. recv .. } else loop again
Cas(e) ==
    /\ pc[e] = "cas"
    /\ IF contents = NULL
       THEN /\ contents' = our_ref[e]
            /\ pc' = [pc EXCEPT ![e] = "recv"]
            /\ pubTakes' = [pubTakes EXCEPT ![e] = 0]
            /\ pubExch' = [pubExch EXCEPT ![e] = 0]
       ELSE /\ contents' = contents
            /\ pc' = [pc EXCEPT ![e] = "take"]
            /\ UNCHANGED <<pubTakes, pubExch>>
    /\ their_ptr' = [their_ptr EXCEPT ![e] = contents]
    /\ UNCHANGED <<our_ref, val, chan, supplied, results, callExch>>

\* Mutant: a receive that never notices that the sender is gone.
RecvForever(e) ==
    /\ pc[e] = "recv"
    /\ chan[e] > 0
    /\ chan' = [chan EXCEPT ![e] = @ - 1]
    /\ results' = [results EXCEPT ![e] = Append(@, Outcome(e, TRUE, "recv"))]
    /\ pc' = [pc EXCEPT ![e] = "idle"]
    /\ UNCHANGED <<contents, our_ref, their_ptr, val, supplied,
                   pubTakes, pubExch, callExch>>

\* Mutant: a receive that leaves the notification in the channel.
RecvKeep(e) ==
    /\ pc[e] = "recv"
    /\ \/ /\ chan[e] > 0
          /\ results' = [results EXCEPT ![e] = Append(@, Outcome(e, TRUE, "recv"))]
       \/ /\ chan[e] = 0
          /\ ~NotifyAlive(Other(e))
          /\ results' = [results EXCEPT ![e] = Append(@, Outcome(e, FALSE, "recv"))]
    /\ pc' = [pc EXCEPT ![e] = "idle"]
    /\ UNCHANGED <<contents, our_ref, their_ptr, val, chan, supplied,
                   pubTakes, pubExch, callExch>>

\* Mutant: a non-blocking receive (try_recv) that fails on an empty channel.
RecvNoBlock(e) ==
    /\ pc[e] = "recv"
    /\ IF chan[e] > 0
       THEN /\ chan' = [chan EXCEPT ![e] = @ - 1]
            /\ results' = [results EXCEPT ![e] = Append(@, Outcome(e, TRUE, "recv"))]
       ELSE /\ chan' = chan
            /\ results' = [results EXCEPT ![e] = Append(@, Outcome(e, FALSE, "recv"))]
    /\ pc' = [pc EXCEPT ![e] = "idle"]
    /\ UNCHANGED <<contents, our_ref, their_ptr, val, supplied,
                   pubTakes, pubExch, callExch>>

\* Mutant: a receive that fails as soon as the sender is gone, discarding
\* what is still queued.
RecvDisconnectFirst(e) ==
    /\ pc[e] = "recv"
    /\ \/ /\ ~NotifyAlive(Other(e))
          /\ chan' = chan
          /\ results' = [results EXCEPT ![e] = Append(@, Outcome(e, FALSE, "recv"))]
       \/ /\ NotifyAlive(Other(e))
          /\ chan[e] > 0
          /\ chan' = [chan EXCEPT ![e] = @ - 1]
          /\ results' = [results EXCEPT ![e] = Append(@, Outcome(e, TRUE, "recv"))]
    /\ pc' = [pc EXCEPT ![e] = "idle"]
    /\ UNCHANGED <<contents, our_ref, their_ptr, val, supplied,
                   pubTakes, pubExch, callExch>>

\* try!(self.wait.recv()); return Ok(());
\* Receiver::recv returns a queued message if there is one, fails when the
\* channel is empty and the Sender has been dropped, and blocks otherwise.
Recv(e) ==
    /\ pc[e] = "recv"
    /\ \/ /\ chan[e] > 0
          /\ chan' = [chan EXCEPT ![e] = @ - 1]
          /\ results' = [results EXCEPT ![e] = Append(@, Outcome(e, TRUE, "recv"))]
       \/ /\ chan[e] = 0
          /\ ~NotifyAlive(Other(e))
          /\ chan' = chan
          /\ results' = [results EXCEPT ![e] = Append(@, Outcome(e, FALSE, "recv"))]
    /\ pc' = [pc EXCEPT ![e] = "idle"]
    /\ UNCHANGED <<contents, our_ref, their_ptr, val, supplied,
                   pubTakes, pubExch, callExch>>

\* Dropping a Swapper: the Receiver `wait` goes first; what is queued in it
\* is discarded.
DropWait(e) ==
    /\ pc[e] = "idle"
    /\ pc' = [pc EXCEPT ![e] = "dropping"]
    /\ chan' = [chan EXCEPT ![e] = 0]
    /\ UNCHANGED <<contents, our_ref, their_ptr, val, supplied, results,
                   pubTakes, pubExch, callExch>>

\* ... then the Sender `notify`.
DropNotify(e) ==
    /\ pc[e] = "dropping"
    /\ pc' = [pc EXCEPT ![e] = "dropped"]
    /\ UNCHANGED <<contents, our_ref, their_ptr, val, chan, supplied, results,
                   pubTakes, pubExch, callExch>>

\* The steps a thread takes by itself once it is inside swap() or drop.
Step(e) ==
    \/ Take(e)
    \/ Exchange(e)
    \/ Send(e)
    \/ Cas(e)
    \/ Recv(e)
    \/ DropNotify(e)

Next ==
    \/ \E e \in Endpoints, v \in Values : \E loc \in LocsOf(e) : StartSwap(e, loc, v)
    \/ \E e \in Endpoints : Take(e)
    \/ \E e \in Endpoints : Exchange(e)
    \/ \E e \in Endpoints : Send(e)
    \/ \E e \in Endpoints : Cas(e)
    \/ \E e \in Endpoints : Recv(e)
    \/ \E e \in Endpoints : DropWait(e)
    \/ \E e \in Endpoints : DropNotify(e)

Spec == Init /\ [][Next]_vars

\* A thread inside swap() or inside drop keeps running.
FairSpec == Spec /\ \A e \in Endpoints : WF_vars(Step(e))

TypeOK ==
    /\ pc \in [Endpoints -> {"idle", "take", "exchange", "send", "cas", "recv",
                             "dropping", "dropped"}]
    /\ contents \in {NULL} \cup LocsOf("a") \cup LocsOf("b")
    /\ \A e \in Endpoints : val[e] \in Values /\ chan[e] \in Nat

\* ---- helpers for the properties ----
Last(s) == s[Len(s)]

InCall(e) == pc[e] \in {"take", "exchange", "send", "cas", "recv"}

Returned(e, i) == Len(results[e]) >= i

HasErr(e) == \E i \in 1..Len(results[e]) : ~results[e][i].ok

\* ---- C1 ----
\* C1 (round trip): once the first call of each endpoint has returned, both
\* returned Ok, a holds the value b supplied and b holds the value a supplied;
\* and as long as an endpoint has made only its first call, its location
\* holds nothing but one of the two supplied values.
RoundTrip ==
    /\ (Returned("a", 1) /\ Returned("b", 1)) =>
          \A e \in Endpoints :
             /\ results[e][1].ok
             /\ results[e][1].out = supplied[Other(e)][1]
    /\ \A e \in Endpoints :
          Len(supplied[e]) = 1 =>
             \/ val[e] = supplied[e][1]
             \/ Len(supplied[Other(e)]) >= 1 /\ val[e] = supplied[Other(e)][1]

\* Both first calls returned, the values differed, a was the publisher.
RoundTripWitness ==
    /\ Returned("a", 1) /\ Returned("b", 1)
    /\ supplied["a"][1] # supplied["b"][1]
    /\ results["a"][1].site = "recv"
    /\ results["b"][1].site = "send"
    /\ results["a"][1].out = supplied["b"][1]

\* ---- C2 ----
\* C2 (liveness): whenever both endpoints have entered their i-th call, both
\* i-th calls eventually return Ok; and in no state are both endpoints inside
\* swap with neither able to take a step.
SwapLiveness ==
    /\ [] ((InCall("a") /\ InCall("b")) => ENABLED (Step("a") \/ Step("b")))
    /\ \A i \in 1..MaxCalls :
          (Len(supplied["a"]) >= i /\ Len(supplied["b"]) >= i)
             ~> (/\ Returned("a", i) /\ results["a"][i].ok
                 /\ Returned("b", i) /\ results["b"][i].ok)

\* Two rounds ran to completion with b the publisher of both: every call
\* returned Ok, b's after having been blocked in its wait.
SwapLivenessWitness ==
    /\ Len(results["a"]) = 2 /\ Len(results["b"]) = 2
    /\ \A e \in Endpoints : \A i \in 1..2 : results[e][i].ok
    /\ results["b"][1].site = "recv"
    /\ results["b"][2].site = "recv"

\* ---- C3 ----
\* C3 (peer loss): a call that has published, whose publication nobody took,
\* and whose peer has been destroyed, eventually returns, and returns
\* SwapError.
PeerLossFails ==
    \A e \in Endpoints : \A i \in 1..MaxCalls :
       (/\ pc[e] = "recv" /\ Len(supplied[e]) = i
        /\ pubTakes[e] = 0
        /\ pc[Other(e)] = "dropped")
          ~> (Returned(e, i) /\ ~results[e][i].ok)

\* A publisher whose peer was destroyed while it was blocked has returned
\* SwapError from its wait.
PeerLossWitness ==
    \E e \in Endpoints :
       /\ pc[e] = "idle" /\ Len(results[e]) = 1
       /\ ~results[e][1].ok /\ results[e][1].site = "recv"
       /\ pubTakes[e] = 0
       /\ pc[Other(e)] = "dropped"
       /\ Len(supplied[Other(e)]) = 0

\* ---- C4 ----
\* C4 (repeatability): whenever the i-th call of an endpoint has returned Ok,
\* the peer has made an i-th call and the endpoint holds exactly the value
\* the peer passed to it.
Repeatability ==
    \A e \in Endpoints : \A i \in 1..Len(results[e]) :
       results[e][i].ok =>
          /\ Len(supplied[Other(e)]) >= i
          /\ results[e][i].out = supplied[Other(e)][i]

\* Two rounds completed with the roles exchanged between them, and the
\* second round handed over a value different from the first.
RepeatabilityWitness ==
    /\ Len(results["a"]) >= 2 /\ Len(results["b"]) >= 2
    /\ results["a"][1].ok /\ results["a"][1].site = "recv"
    /\ results["a"][2].ok /\ results["a"][2].site = "send"
    /\ results["a"][1].out # results["a"][2].out

\* ---- C5 ----
\* C5 (exclusivity): at most one endpoint is a blocked publisher whose value
\* has not been exchanged yet.
Exclusivity == ~(Unconsumed("a") /\ Unconsumed("b"))

\* The double-publish race: b found the slot empty, a published first, and
\* b's conditional publish is about to fail.
ExclusivityWitness ==
    /\ Unconsumed("a")
    /\ pc["b"] = "cas"
    /\ contents = our_ref["a"]
    /\ pubTakes["a"] = 0

\* ---- C6 ----
\* C6 (exclusive access during handoff): whenever an endpoint is about to
\* perform the in-place exchange, the reference it took refers to the value
\* of the other endpoint, and that endpoint has published it and is blocked.
ExclusiveHandoff ==
    \A e \in Endpoints :
       pc[e] = "exchange" =>
          /\ their_ptr[e] \in LocsOf(Other(e))
          /\ pc[Other(e)] = "recv"
          /\ our_ref[Other(e)] = their_ptr[e]

\* ---- C7 ----
\* C7 (exactly-once exchange): a publication is taken out of the slot at most
\* once and exchanged at most once, a call performs at most one exchange, a
\* publisher that returned Ok had its value taken and exchanged exactly once,
\* and a consumer that returned Ok performed exactly one exchange.
ExactlyOnce ==
    \A e \in Endpoints :
       /\ pubTakes[e] <= 1 /\ pubExch[e] <= 1 /\ callExch[e] <= 1
       /\ pubExch[e] <= pubTakes[e]
       /\ (pc[e] = "idle" /\ Len(results[e]) > 0 /\ Last(results[e]).ok) =>
             IF Last(results[e]).site = "recv"
             THEN pubTakes[e] = 1 /\ pubExch[e] = 1 /\ callExch[e] = 0
             ELSE callExch[e] = 1

\* A rendezvous is complete: the publisher and the consumer both returned Ok.
ExactlyOnceWitness ==
    /\ pc["a"] = "idle" /\ pc["b"] = "idle"
    /\ Len(results["a"]) = 1 /\ Len(results["b"]) = 1
    /\ results["b"][1].ok /\ results["b"][1].site = "recv"
    /\ results["a"][1].ok /\ results["a"][1].site = "send"
    /\ pubExch["b"] = 1 /\ callExch["a"] = 1

\* ---- C8 ----
\* C8 (errors only on peer loss): a call returned SwapError from its send
\* only if the peer's receiver has been dropped, and from its wait only if
\* the peer's sender has been dropped; hence no call fails while neither
\* endpoint is being destroyed.
ErrorsOnlyOnPeerLoss ==
    \A e \in Endpoints : \A i \in 1..Len(results[e]) :
       ~results[e][i].ok =>
          IF results[e][i].site = "send"
          THEN ~WaitAlive(Other(e))
          ELSE ~NotifyAlive(Other(e))

\* A call failed at its send because the peer's receiver is gone.
ErrorsOnlyOnPeerLossWitness ==
    \E e \in Endpoints :
       /\ Len(results[e]) > 0
       /\ ~Last(results[e]).ok /\ Last(results[e]).site = "send"
       /\ ~WaitAlive(Other(e))

\* ---- C9 ----
\* C9 (peer loss is terminal): after a call of an endpoint returned
\* SwapError, no later call of that endpoint returns Ok, and every later call
\* of that endpoint returns.
PeerLossTerminal ==
    /\ [] (\A e \in Endpoints : \A i, j \in 1..Len(results[e]) :
              (i < j /\ ~results[e][i].ok) => ~results[e][j].ok)
    /\ \A e \in Endpoints :
          (HasErr(e) /\ InCall(e))
             ~> (pc[e] = "idle" /\ Len(results[e]) > 0 /\ ~Last(results[e]).ok)

\* An endpoint made two calls and both returned SwapError.
PeerLossTerminalWitness ==
    \E e \in Endpoints :
       /\ Len(results[e]) >= 2
       /\ ~results[e][1].ok /\ ~results[e][2].ok

\* ---- C10 ----
\* C10 as stated (channel failure on destruction): once the peer has been
\* destroyed, a wait or a signal of the survivor that completes, fails.
ChannelFailsAfterDestroy ==
    [][\A e \in Endpoints :
          (/\ pc[Other(e)] = "dropped"
           /\ pc[e] \in {"recv", "send"}
           /\ pc'[e] = "idle")
             => ~Last(results'[e]).ok]_vars

\* C10 (amended): once the peer has been destroyed, the survivor's signal
\* fails, its wait on an empty incoming channel fails, and neither blocks; a
\* wait that finds a notification queued before the destruction succeeds.
ChannelFailsWhenEmpty ==
    /\ [][\A e \in Endpoints :
             (/\ pc[Other(e)] = "dropped"
              /\ pc'[e] = "idle"
              /\ \/ pc[e] = "send"
                 \/ pc[e] = "recv" /\ chan[e] = 0)
                => ~Last(results'[e]).ok]_vars
    /\ [] (\A e \in Endpoints :
             (pc[Other(e)] = "dropped" /\ pc[e] \in {"recv", "send"})
                => ENABLED Step(e))
    /\ [][\A e \in Endpoints :
             (/\ pc[Other(e)] = "dropped"
              /\ pc[e] = "recv" /\ chan[e] > 0
              /\ pc'[e] = "idle")
                => Last(results'[e]).ok]_vars

\* The survivor's wait failed on an empty channel and its next call's signal
\* failed as well, the peer being destroyed.
ChannelFailsWitness ==
    \E e \in Endpoints :
       /\ pc[Other(e)] = "dropped"
       /\ Len(results[e]) = 2
       /\ ~results[e][1].ok /\ results[e][1].site = "recv"
       /\ ~results[e][2].ok /\ results[e][2].site = "send"

\* ---- C11 ----
\* C11 (the consumer never blocks and wakes the peer): a call that took the
\* peer's publication goes from the exchange to the send and from the send
\* to its return without waiting; its send returns Ok and adds exactly one
\* notification to the peer's channel and none to its own; and both that call
\* and the blocked peer's call eventually return Ok.
ConsumerWakesPeer ==
    /\ [][\A e \in Endpoints :
             (their_ptr[e] \in LocsOf(Other(e)) /\ pc'[e] # pc[e]) =>
                /\ pc[e] = "exchange" => pc'[e] = "send"
                /\ pc[e] = "send" =>
                      /\ pc'[e] = "idle"
                      /\ Last(results'[e]).ok
                      /\ chan'[Other(e)] = chan[Other(e)] + 1
                      /\ chan'[e] = chan[e]]_vars
    /\ \A e \in Endpoints : \A i, j \in 1..MaxCalls :
          (/\ pc[e] = "exchange" /\ their_ptr[e] \in LocsOf(Other(e))
           /\ Len(supplied[e]) = i /\ Len(supplied[Other(e)]) = j)
             ~> (/\ Returned(e, i) /\ results[e][i].ok
                 /\ results[e][i].site = "send"
                 /\ Returned(Other(e), j) /\ results[Other(e)][j].ok
                 /\ results[Other(e)][j].site = "recv")

\* The consumer has returned from its send, its notification is queued for
\* the publisher, and the publisher has not woken yet.
ConsumerWakesPeerWitness ==
    /\ pc["a"] = "idle" /\ Len(results["a"]) = 1
    /\ results["a"][1].ok /\ results["a"][1].site = "send"
    /\ their_ptr["a"] \in LocsOf("b")
    /\ pc["b"] = "recv" /\ chan["b"] = 1 /\ chan["a"] = 0

\* ---- C12 ----
\* C12 (no cancellation): a blocked publisher leaves its wait either with Ok,
\* a notification being queued and its value having been exchanged, or with
\* SwapError, the peer being destroyed; while nobody has taken its
\* publication and the peer's sender is alive, its wait cannot return.
NoCancellation ==
    /\ [][\A e \in Endpoints :
             (pc[e] = "recv" /\ pc'[e] # "recv") =>
                /\ pc'[e] = "idle"
                /\ \/ /\ Last(results'[e]).ok
                      /\ chan[e] > 0 /\ pubExch[e] = 1
                   \/ /\ ~Last(results'[e]).ok
                      /\ pc[Other(e)] = "dropped"]_vars
    /\ [] (\A e \in Endpoints :
             (pc[e] = "recv" /\ pubTakes[e] = 0 /\ NotifyAlive(Other(e)))
                => ~ENABLED Step(e))

\* A publisher is blocked while its peer is alive and has made no call.
NoCancellationWitness ==
    /\ pc["a"] = "recv" /\ contents = our_ref["a"]
    /\ pc["b"] = "idle" /\ Len(supplied["b"]) = 0
    /\ chan["a"] = 0

\* ---- C13 ----
\* C13 (slot invariant): the slot is empty or holds a reference to the value
\* of an endpoint that has published and is still blocked inside swap; so it
\* never holds a reference to the value of a caller whose call has returned.
SlotInvariant == contents # NULL => Borrowed(contents)

\* ---- C14 ----
\* C14 (wake after exchange): when a publisher's wait returns Ok, its
\* reference has been taken out of the slot and exchanged exactly once, the
\* slot no longer holds it, and its value is the one the peer supplied to the
\* matching call.
WakeAfterExchange ==
    [][\A e \in Endpoints :
          (pc[e] = "recv" /\ pc'[e] = "idle" /\ Last(results'[e]).ok) =>
             /\ pubTakes[e] = 1 /\ pubExch[e] = 1
             /\ contents # our_ref[e]
             /\ pc[Other(e)] # "exchange"
             /\ Len(supplied[Other(e)]) >= Len(supplied[e])
             /\ val[e] = supplied[Other(e)][Len(supplied[e])]]_vars

\* A publisher woke in the second round and holds the second value of the
\* peer, which differs from the first.
WakeAfterExchangeWitness ==
    /\ Len(results["a"]) = 2
    /\ results["a"][1].ok /\ results["a"][1].site = "recv"
    /\ results["a"][2].ok /\ results["a"][2].site = "recv"
    /\ results["a"][2].out = supplied["b"][2]
    /\ supplied["b"][1] # supplied["b"][2]

\* ---- C15 ----
\* C15 (at most one outstanding signal): each channel holds at most one
\* undelivered notification, and holds one only while its receiving endpoint
\* is blocked in its wait as a publisher whose value has been exchanged.
OneOutstandingSignal ==
    \A e \in Endpoints :
       /\ chan[e] <= 1
       /\ chan[e] > 0 => (pc[e] = "recv" /\ pubExch[e] = 1 /\ pubTakes[e] = 1)

\* A notification is queued for a blocked publisher while the peer is already
\* blocked as the publisher of the next round.
OneOutstandingSignalWitness ==
    /\ chan["a"] = 1 /\ pc["a"] = "recv"
    /\ pc["b"] = "recv" /\ chan["b"] = 0
    /\ Len(supplied["b"]) = 2

\* ---- C16 ----
\* C16 (bounded retry): a take-and-clear that follows a failed conditional
\* publish finds the publication of the blocked peer in the slot, and the
\* call then goes on to the exchange; so the publish fails at most once per
\* call and the loop runs at most twice.
BoundedRetry ==
    /\ [] (\A e \in Endpoints :
             (pc[e] = "take" /\ their_ptr[e] # NULL) =>
                /\ contents = their_ptr[e]
                /\ contents \in LocsOf(Other(e))
                /\ Borrowed(contents))
    /\ [][\A e \in Endpoints :
             (pc[e] = "take" /\ their_ptr[e] # NULL /\ pc'[e] # "take")
                => pc'[e] = "exchange"]_vars

\* b found the slot empty, a published first, b's conditional publish
\* failed and b is about to take again; a is blocked.
BoundedRetryWitness ==
    /\ pc["b"] = "take" /\ their_ptr["b"] = our_ref["a"]
    /\ contents = our_ref["a"]
    /\ pc["a"] = "recv" /\ pubTakes["a"] = 0

\* ---- C17 ----
\* C17 (value unchanged on error): whenever a call returned SwapError, the
\* caller's value at the return is the value it passed in.
ValueUnchangedOnError ==
    \A e \in Endpoints : \A i \in 1..Len(results[e]) :
       ~results[e][i].ok => results[e][i].out = supplied[e][i]

\* ---- C18 ----
\* C18 (outcome agreement): matching calls never disagree on their outcome,
\* and once a consumer's call has returned Ok the publisher's matching call
\* eventually returns Ok holding the consumer's value, whether or not the
\* consumer endpoint is destroyed in between.
OutcomeAgreement ==
    /\ [] (\A i \in 1..MaxCalls :
             (Returned("a", i) /\ Returned("b", i))
                => results["a"][i].ok = results["b"][i].ok)
    /\ \A e \in Endpoints : \A i \in 1..MaxCalls :
          (Returned(e, i) /\ results[e][i].ok /\ results[e][i].site = "send")
             ~> (/\ Returned(Other(e), i)
                 /\ results[Other(e)][i].ok
                 /\ results[Other(e)][i].site = "recv"
                 /\ results[Other(e)][i].out = supplied[e][i])

\* The consumer returned Ok and was destroyed; the publisher then made a
\* second call, which failed, after its first had returned Ok.
OutcomeAgreementWitness ==
    /\ pc["a"] = "dropped" /\ Len(results["a"]) = 1
    /\ results["a"][1].ok /\ results["a"][1].site = "send"
    /\ Len(results["b"]) = 2
    /\ results["b"][1].ok /\ results["b"][1].site = "recv"
    /\ ~results["b"][2].ok

====
